---- MODULE Spec2Model ----
(***************************************************************************)
(* Model of trade.py ("Trade with Laiba"): the User / Trade /              *)
(* TradingSystem classes, the users.json persistence store, the market     *)
(* oracle, the Stripe unlock flow and the Streamlit script that drives     *)
(* them.  Streamlit re-executes the whole script on every interaction, so  *)
(* every UI action below begins with USERS = load_users() (line 176) and   *)
(* the only state surviving a rerun is users.json and st.session_state.    *)
(*                                                                         *)
(* Money is held in integer sub-units: Scale sub-units make one currency   *)
(* unit, and Scale is a power of ten large enough that amount * 0.9 is     *)
(* exact for every amount the model can produce.                           *)
(***************************************************************************)
EXTENDS Integers, Sequences, FiniteSets, TLC

VARIABLES file, USERS, session, last, ledger, oracle

vars == <<file, USERS, session, last, ledger, oracle>>

(***************************************************************************)
(* Bounds of the model                                                     *)
(***************************************************************************)
MaxTrades == 2        \* longest trade log a UI / core account object grows to
MaxPayments == 1      \* longest payment-intent list the provider returns
MaxCloses == 3        \* most price points in an oracle response
MaxLevelTrades == 33  \* longest trade log in the level specification

(***************************************************************************)
(* Program constants                                                       *)
(***************************************************************************)
DEMO_STAKE == 10000   \* User.__init__: balance of a demo account
UNLOCK_BONUS == 100   \* check_payment_and_unlock: user.balance = 100
MIN_AMOUNT == 1       \* number_input(min_value=1.0) and balance < 1.0
INTERMEDIATE_AT == 11 \* get_level: count >= 11
PRO_AT == 31          \* get_level: count >= 31

RECURSIVE Pow10(_)
Pow10(n) == IF n = 0 THEN 1 ELSE 10 * Pow10(n - 1)

Scale == Pow10(MaxTrades + 1)

(***************************************************************************)
(* Input domains                                                           *)
(***************************************************************************)
Usernames == {"alice", "bob"}
Passwords == {"", "pw1"}
Emails == {"", "a@x.io"}
AccountTypes == {"demo", "real"}
Directions == {"up", "down"}
Timestamps == {"t1"}
Salts == {"s1"}
None == [class |-> "NoneType"]
NoFile == [class |-> "absent"]

(***************************************************************************)
(* bcrypt.hashpw / bcrypt.checkpw                                          *)
(***************************************************************************)
hashpw(password, salt) == [class |-> "str", salt |-> salt, digest |-> password]

checkpw(password, hashed) == hashed.digest = password

(***************************************************************************)
(* class User                                                              *)
(***************************************************************************)
User(username, account_type, hashed_password) ==
    [class |-> "User",
     username |-> username,
     account_type |-> account_type,
     hashed_password |-> hashed_password,
     balance |-> IF account_type = "demo" THEN DEMO_STAKE * Scale ELSE 0,
     trades |-> <<>>,
     history |-> <<>>,
     premium_unlocked |-> FALSE]

update_balance(user, amount, now) ==
    LET balance == user.balance + amount
    IN  [user EXCEPT !.balance = balance,
                     !.history = Append(@, [timestamp |-> now, balance |-> balance])]

get_level_mut(user) ==
    LET count == Len(user.trades)
    IN  IF count > PRO_AT THEN "Pro"
        ELSE IF count > INTERMEDIATE_AT THEN "Intermediate"
        ELSE "Beginner"

get_level(user) ==
    LET count == Len(user.trades)
    IN  IF count >= PRO_AT THEN "Pro"
        ELSE IF count >= INTERMEDIATE_AT THEN "Intermediate"
        ELSE "Beginner"

(***************************************************************************)
(* class Trade                                                             *)
(***************************************************************************)
Trade(amount, prediction, result) ==
    [class |-> "Trade", amount |-> amount, prediction |-> prediction, result |-> result]

is_win(trade) == trade.prediction = trade.result

(***************************************************************************)
(* get_real_market_trend                                                   *)
(***************************************************************************)
CloseTexts == {"100.5", "101.5", "abc"}

Responses ==
    {[kind |-> k, series |-> <<>>] : k \in {"network_error", "not_json", "rate_limit"}}
    \cup {[kind |-> "json", series |-> s] :
            s \in UNION {[1..n -> [close : CloseTexts]] : n \in 0..MaxCloses}}

\* float(text): the value (in tenths), or ok = FALSE when float() raises ValueError
float(text) ==
    CASE text = "100.5" -> [ok |-> TRUE, value |-> 1005]
      [] text = "101.5" -> [ok |-> TRUE, value |-> 1015]
      [] OTHER -> [ok |-> FALSE, value |-> 0]

\* the try block of get_real_market_trend: its return value, or "raise"
TrendTry(resp) ==
    IF resp.kind = "network_error" THEN "raise"       \* requests.get raises
    ELSE IF resp.kind = "not_json" THEN "raise"       \* response.json() raises
    ELSE IF resp.kind = "rate_limit" THEN "raise"     \* KeyError "Time Series (1min)"
    ELSE LET times == resp.series
         IN  IF Len(times) < 1 THEN "raise"           \* IndexError times[0]
             ELSE IF Len(times) < 2 THEN "raise"      \* IndexError times[1]
             ELSE LET latest == float(times[1].close)
                      prev == float(times[2].close)
                  IN  IF ~latest.ok \/ ~prev.ok THEN "raise"
                      ELSE IF latest.value > prev.value THEN "up" ELSE "down"

get_real_market_trend_mut(resp, coin) ==
    IF resp.kind \in {"network_error", "not_json", "rate_limit"}
    THEN coin ELSE TrendTry(resp)

\* coin is what random.choice(["up", "down"]) returns if it is called
get_real_market_trend(resp, coin) ==
    LET r == TrendTry(resp)
    IN  IF r = "raise" THEN coin ELSE r

\* every value TradingSystem.get_market_result can hand to place_trade
OracleResults == {get_real_market_trend(r, c) : r \in Responses, c \in Directions}

(***************************************************************************)
(* TradingSystem.place_trade                                               *)
(***************************************************************************)
win_amount_mut(amount) == amount

win_amount(amount) == (amount \div 10) * 9

place_trade_mut(user, amount, prediction, result, now) ==
    LET trade == Trade(amount, prediction, result)
    IN  IF is_win(trade)
        THEN [user |-> update_balance(user, win_amount(amount), now),
              ret |-> <<TRUE, result, win_amount(amount)>>]
        ELSE [user |-> update_balance(user, -amount, now),
              ret |-> <<FALSE, result, -amount>>]

place_trade(user, amount, prediction, result, now) ==
    LET trade == Trade(amount, prediction, result)
        appended == [user EXCEPT !.trades = Append(@, trade)]
    IN  IF is_win(trade)
        THEN [user |-> update_balance(appended, win_amount(amount), now),
              ret |-> <<TRUE, result, win_amount(amount)>>]
        ELSE [user |-> update_balance(appended, -amount, now),
              ret |-> <<FALSE, result, -amount>>]

(***************************************************************************)
(* users.json: save_users / load_users                                     *)
(***************************************************************************)
\* vars(t): the attribute dict of a Trade
TradeVars(t) == [amount |-> t.amount, prediction |-> t.prediction, result |-> t.result]

save_users(users) ==
    [username \in DOMAIN users |->
        [account_type |-> users[username].account_type,
         balance |-> users[username].balance,
         trades |-> [i \in 1..Len(users[username].trades) |->
                        TradeVars(users[username].trades[i])],
         history |-> users[username].history,
         hashed_password |-> users[username].hashed_password,
         premium_unlocked |-> users[username].premium_unlocked]]

LoadUser_mut(username, info) ==
    [User(username, info.account_type, info.hashed_password) EXCEPT
        !.balance = info.balance,
        !.trades = [i \in 1..Len(info.trades) |->
                       Trade(info.trades[i].amount, info.trades[i].prediction,
                             info.trades[i].result)],
        !.history = info.history,
        !.hashed_password = info.hashed_password]

LoadUser(username, info) ==
    [User(username, info.account_type, info.hashed_password) EXCEPT
        !.balance = info.balance,
        !.trades = [i \in 1..Len(info.trades) |->
                       Trade(info.trades[i].amount, info.trades[i].prediction,
                             info.trades[i].result)],
        !.history = info.history,
        !.hashed_password = info.hashed_password,
        !.premium_unlocked = info.premium_unlocked]

load_users(f) ==
    IF f = NoFile THEN <<>>
    ELSE [username \in DOMAIN f |-> LoadUser(username, f[username])]

\* users[username] = user
Put(users, username, user) ==
    [u \in DOMAIN users \cup {username} |-> IF u = username THEN user ELSE users[u]]

(***************************************************************************)
(* check_payment_and_unlock                                                *)
(***************************************************************************)
PaymentStatuses == {"succeeded", "requires_payment_method"}

Payments == [status : PaymentStatuses, username : Usernames]

PaymentLists == UNION {[1..n -> Payments] : n \in 0..MaxPayments}

Unlocked_mut(user) ==
    [user EXCEPT !.premium_unlocked = TRUE, !.account_type = "real"]

\* lines 108-110
Unlocked(user) ==
    [user EXCEPT !.premium_unlocked = TRUE,
                 !.account_type = "real",
                 !.balance = UNLOCK_BONUS * Scale]

MayUnlock_mut(users, username) == username \in DOMAIN users

\* line 107: if user and not user.premium_unlocked
MayUnlock(users, username) ==
    username \in DOMAIN users /\ ~users[username].premium_unlocked

RECURSIVE ScanPayments(_, _, _, _)
ScanPayments(users, username, payments, i) ==
    IF i > Len(payments)
    THEN [ret |-> FALSE, users |-> users, saved |-> FALSE]
    ELSE IF /\ payments[i].status = "succeeded"
            /\ payments[i].username = username
            /\ MayUnlock(users, username)
         THEN [ret |-> TRUE,
               users |-> Put(users, username, Unlocked(users[username])),
               saved |-> TRUE]
         ELSE ScanPayments(users, username, payments, i + 1)

\* stripeError: stripe.payment_intents.list raises
check_payment_and_unlock(users, username, payments, stripeError) ==
    IF stripeError
    THEN [ret |-> FALSE, users |-> users, saved |-> FALSE]
    ELSE ScanPayments(users, username, payments, 1)

(***************************************************************************)
(* The Streamlit script: one action per button, each a whole rerun.        *)
(* session is st.session_state (its "user" key; the "email" key is written *)
(* at login and never read, and is left out).  last records the handler    *)
(* that ran, what it was given and what it returned; every handler sets    *)
(* it, so last.op names the handler of the step just taken.                *)
(***************************************************************************)
NoSession == [user |-> None]

IdleOracle == [pc |-> "idle"]

Init ==
    /\ file = NoFile
    /\ USERS = load_users(NoFile)
    /\ session = NoSession
    /\ last = [op |-> "start"]
    /\ ledger = <<>>
    /\ oracle = IdleOracle

\* lines 176, 189-208
LoginClick(username, password, account_type, salt) ==
    LET loaded == load_users(file)
    IN  /\ IF username \notin DOMAIN loaded
           THEN IF password = ""
                THEN /\ USERS' = loaded
                     /\ UNCHANGED session
                     /\ last' = [op |-> "login", ok |-> FALSE]
                ELSE LET hashed_pw == hashpw(password, salt)
                         users == Put(loaded, username,
                                      User(username, account_type, hashed_pw))
                     IN  /\ USERS' = users
                         /\ session' = [user |-> users[username]]
                         /\ last' = [op |-> "create", ok |-> TRUE]
           ELSE LET user == loaded[username]
                IN  /\ USERS' = loaded
                    /\ IF /\ user.hashed_password # None
                          /\ checkpw(password, user.hashed_password)
                       THEN /\ session' = [user |-> user]
                            /\ last' = [op |-> "login", ok |-> TRUE]
                       ELSE /\ UNCHANGED session
                            /\ last' = [op |-> "login", ok |-> FALSE]
        /\ file' = save_users(USERS')
        /\ UNCHANGED <<ledger, oracle>>

AmountInputs_mut(balance) == {0, MIN_AMOUNT * Scale, balance, 2 * balance}

\* number_input(min_value=1.0, max_value=float(user.balance)): what the user
\* may type, kept only when within [min_value, max_value]
AmountInputs(balance) ==
    {a \in {0, MIN_AMOUNT * Scale, balance, 2 * balance} :
        MIN_AMOUNT * Scale <= a /\ a <= balance}

\* line 229: the trade form is rendered unless user.balance < 1.0
CanTrade(user) == ~(user.balance < MIN_AMOUNT * Scale)

\* lines 176, 229-240
PlaceTradeClick ==
    /\ session.user # None
    /\ CanTrade(session.user)
    /\ Len(session.user.trades) < MaxTrades
    /\ \E amount \in AmountInputs(session.user.balance), prediction \in Directions,
          result \in OracleResults, now \in Timestamps :
          LET r == place_trade(session.user, amount, prediction, result, now)
          IN  /\ session' = [session EXCEPT !.user = r.user]
              /\ last' = [op |-> "trade", before |-> session.user.balance,
                          amount |-> amount, prediction |-> prediction,
                          result |-> result, ret |-> r.ret]
    /\ USERS' = load_users(file)
    /\ file' = save_users(USERS')
    /\ UNCHANGED <<ledger, oracle>>

\* lines 176, 262-272: create_stripe_checkout_session changes no local state
CheckoutClick(email, stripeError) ==
    /\ session.user # None
    /\ ~session.user.premium_unlocked
    /\ email # ""
    /\ USERS' = load_users(file)
    /\ last' = [op |-> "checkout"]
    /\ UNCHANGED <<file, session, ledger, oracle>>

HasPaid(payments, username) ==
    \E i \in 1..Len(payments) :
        payments[i].status = "succeeded" /\ payments[i].username = username

\* lines 176, 262, 274-278
VerifyClick(payments, stripeError) ==
    /\ session.user # None
    /\ ~session.user.premium_unlocked
    /\ LET r == check_payment_and_unlock(load_users(file), session.user.username,
                                         payments, stripeError)
       IN  /\ USERS' = r.users
           /\ file' = IF r.saved THEN save_users(r.users) ELSE file
           /\ last' = [op |-> "verify", ret |-> r.ret, error |-> stripeError,
                       paid |-> HasPaid(payments, session.user.username)]
    /\ UNCHANGED <<session, ledger, oracle>>

Login ==
    \E username \in Usernames, password \in Passwords,
       account_type \in AccountTypes, salt \in Salts :
        LoginClick(username, password, account_type, salt)

Checkout == \E email \in Emails, stripeError \in BOOLEAN : CheckoutClick(email, stripeError)

Verify ==
    \/ \E payments \in PaymentLists : VerifyClick(payments, FALSE)
    \/ VerifyClick(<<>>, TRUE)

Next == Login \/ PlaceTradeClick \/ Checkout \/ Verify

Spec == Init /\ [][Next]_vars

(***************************************************************************)
(* The classes and helpers called directly, outside the Streamlit script:  *)
(* USERS is the population, every mutation is followed by save_users, and  *)
(* Reload is a process start.  ledger[u] keeps, for account u, the balance *)
(* and trade-log length at the start of the current run of place_trade     *)
(* calls, the deltas the calls returned and the trades they asked for.     *)
(***************************************************************************)
CoreAmounts == {MIN_AMOUNT * Scale, 2 * DEMO_STAKE * Scale}

RECURSIVE SumSeq(_)
SumSeq(q) == IF q = <<>> THEN 0 ELSE q[1] + SumSeq(Tail(q))

RECURSIVE TotalTrades(_)
TotalTrades(users) ==
    IF DOMAIN users = {} THEN 0
    ELSE LET u == CHOOSE x \in DOMAIN users : TRUE
         IN  Len(users[u].trades)
             + TotalTrades([x \in DOMAIN users \ {u} |-> users[x]])

NewLedger(user) ==
    [base |-> user.balance, n0 |-> Len(user.trades), deltas |-> <<>>, calls |-> <<>>]

InitCore ==
    /\ file = NoFile
    /\ USERS = load_users(NoFile)
    /\ session = NoSession
    /\ last = [op |-> "start"]
    /\ ledger = <<>>
    /\ oracle = IdleOracle

CoreCreate(username, account_type, password, salt) ==
    /\ username \notin DOMAIN USERS
    /\ password # ""
    /\ USERS' = Put(USERS, username, User(username, account_type, hashpw(password, salt)))
    /\ file' = save_users(USERS')
    /\ ledger' = Put(ledger, username, NewLedger(USERS'[username]))
    /\ last' = [op |-> "create", ok |-> TRUE]
    /\ UNCHANGED <<session, oracle>>

CoreTrade(username, amount, prediction, result, now) ==
    /\ username \in DOMAIN USERS
    /\ TotalTrades(USERS) < MaxTrades
    /\ LET r == place_trade(USERS[username], amount, prediction, result, now)
       IN  /\ USERS' = Put(USERS, username, r.user)
           /\ ledger' = [ledger EXCEPT
                           ![username].deltas = Append(@, r.ret[3]),
                           ![username].calls = Append(@, Trade(amount, prediction, result))]
           /\ last' = [op |-> "trade", username |-> username,
                       before |-> USERS[username].balance, amount |-> amount,
                       prediction |-> prediction, result |-> result, ret |-> r.ret]
    /\ file' = save_users(USERS')
    /\ UNCHANGED <<session, oracle>>

\* check_payment_and_unlock with the provider listing one succeeded payment
\* of username; a call that returns False changes nothing
CoreUnlock(username) ==
    /\ LET payments == <<[status |-> "succeeded", username |-> username]>>
           r == check_payment_and_unlock(USERS, username, payments, FALSE)
       IN  /\ USERS' = r.users
           /\ file' = IF r.saved THEN save_users(r.users) ELSE file
           /\ ledger' = IF r.ret THEN Put(ledger, username, NewLedger(r.users[username]))
                        ELSE ledger
           /\ last' = IF r.ret
                      THEN [op |-> "verify", ret |-> TRUE, error |-> FALSE, paid |-> TRUE]
                      ELSE last
    /\ UNCHANGED <<session, oracle>>

Reload ==
    /\ USERS' = load_users(file)
    /\ UNCHANGED <<file, session, last, ledger, oracle>>

Create ==
    \E username \in Usernames, account_type \in AccountTypes,
       password \in Passwords, salt \in Salts :
        CoreCreate(username, account_type, password, salt)

TradeCall ==
    \E username \in Usernames, amount \in CoreAmounts, prediction \in Directions,
       result \in OracleResults, now \in Timestamps :
        CoreTrade(username, amount, prediction, result, now)

Unlock == \E username \in Usernames : CoreUnlock(username)

NextCore == Create \/ TradeCall \/ Unlock \/ Reload

SpecCore == InitCore /\ [][NextCore]_vars

(***************************************************************************)
(* One account growing a long trade log, for get_level: every trade is of  *)
(* the minimum amount and repeats the prediction and the outcome of the    *)
(* account's first trade; the account may be unlocked at any point.        *)
(***************************************************************************)
InitLevel ==
    /\ session = [user |-> User("alice", "demo", hashpw("pw1", "s1"))]
    /\ file = NoFile
    /\ USERS = load_users(NoFile)
    /\ last = [op |-> "start"]
    /\ ledger = <<>>
    /\ oracle = IdleOracle

LevelTrade ==
    /\ Len(session.user.trades) < MaxLevelTrades
    /\ \E prediction \in Directions, result \in OracleResults, now \in Timestamps :
          /\ session.user.trades # <<>> =>
                /\ prediction = session.user.trades[1].prediction
                /\ result = session.user.trades[1].result
          /\ LET r == place_trade(session.user, MIN_AMOUNT * Scale, prediction, result, now)
             IN  /\ session' = [session EXCEPT !.user = r.user]
                 /\ last' = [op |-> "trade", before |-> session.user.balance,
                             amount |-> MIN_AMOUNT * Scale, prediction |-> prediction,
                             result |-> result, ret |-> r.ret]
    /\ UNCHANGED <<file, USERS, ledger, oracle>>

LevelUnlock ==
    /\ ~session.user.premium_unlocked
    /\ session' = [session EXCEPT !.user = Unlocked(@)]
    /\ last' = [op |-> "verify", ret |-> TRUE, error |-> FALSE, paid |-> TRUE]
    /\ UNCHANGED <<file, USERS, ledger, oracle>>

NextLevel == LevelTrade \/ LevelUnlock

SpecLevel == InitLevel /\ [][NextLevel]_vars

(***************************************************************************)
(* get_real_market_trend called on every provider response                *)
(***************************************************************************)
InitOracle ==
    /\ \E resp \in Responses, coin \in Directions :
          oracle = [pc |-> "call", resp |-> resp, coin |-> coin, out |-> "none"]
    /\ file = NoFile
    /\ USERS = load_users(NoFile)
    /\ session = NoSession
    /\ last = [op |-> "start"]
    /\ ledger = <<>>

OracleCall ==
    /\ oracle.pc = "call"
    /\ oracle' = [oracle EXCEPT !.pc = "done",
                                !.out = get_real_market_trend(oracle.resp, oracle.coin)]
    /\ UNCHANGED <<file, USERS, session, last, ledger>>

OracleNext ==
    /\ oracle.pc = "done"
    /\ \E resp \in Responses, coin \in Directions :
          oracle' = [pc |-> "call", resp |-> resp, coin |-> coin, out |-> "none"]
    /\ UNCHANGED <<file, USERS, session, last, ledger>>

NextOracle == OracleCall \/ OracleNext

SpecOracle == InitOracle /\ [][NextOracle]_vars

(***************************************************************************)
(* Properties                                                              *)
(***************************************************************************)
\* the users.json record save_users writes for one account
SavedRecord(user) == save_users(Put(<<>>, user.username, user))[user.username]

Mutated == last.op \in {"create", "trade"} \/ (last.op = "verify" /\ last.ret)

\* C1: after every mutating user action (account creation, Place Trade, a
\* successful Verify Payment) users.json holds, for the acting account, exactly
\* the account object the session is operating on.
C1_FileHoldsSessionAccount ==
    Mutated =>
        /\ file # NoFile
        /\ session.user.username \in DOMAIN file
        /\ file[session.user.username] = SavedRecord(session.user)

HistoryTracksBalance(user) ==
    /\ user.history # <<>>
    /\ user.history[Len(user.history)].balance = user.balance

\* C2: after a committed mutation of an account (a place_trade on the session's
\* account, an unlock of the population's account) the account's history is
\* non-empty and its last entry records the account's current balance.
C2_HistoryLastIsBalance ==
    /\ last.op = "trade" => HistoryTracksBalance(session.user)
    /\ (last.op = "verify" /\ last.ret) =>
          HistoryTracksBalance(USERS[session.user.username])

\* C3: over every run of place_trade calls on an account, the balance is the
\* balance at the start plus the sum of the returned deltas, and the trade log
\* has grown by exactly the trades of the calls, in call order.
C3_BalanceIsBasePlusDeltas ==
    \A u \in DOMAIN USERS :
        /\ u \in DOMAIN ledger
        /\ USERS[u].balance = ledger[u].base + SumSeq(ledger[u].deltas)
        /\ Len(ledger[u].deltas) = Len(ledger[u].calls)
        /\ Len(USERS[u].trades) = ledger[u].n0 + Len(ledger[u].calls)
        /\ \A i \in 1..Len(ledger[u].calls) :
              USERS[u].trades[ledger[u].n0 + i] = ledger[u].calls[i]

\* two calls with the same arguments have been made on one account
C3_Witness ==
    \E u \in DOMAIN USERS :
        /\ Len(ledger[u].calls) = 2
        /\ ledger[u].calls[1] = ledger[u].calls[2]
        /\ ledger[u].deltas[1] # 0

\* C4: check_payment_and_unlock returns True exactly when the provider lists a
\* succeeded payment whose metadata username is the given one and the account
\* exists and is not yet unlocked; then the account ends unlocked, "real", with
\* balance 100, everything else as it was, and the population is saved.  In
\* every other case, a provider error included, it returns False and neither
\* the population, users.json nor the session changes.
C4_VerifyContract ==
    [][last'.op = "verify" =>
          LET u == session.user.username
              before == load_users(file)
              applies == /\ ~last'.error
                         /\ last'.paid
                         /\ u \in DOMAIN before
                         /\ ~before[u].premium_unlocked
          IN  /\ last'.ret = applies
              /\ applies =>
                    /\ USERS'[u] = [before[u] EXCEPT !.premium_unlocked = TRUE,
                                                     !.account_type = "real",
                                                     !.balance = UNLOCK_BONUS * Scale]
                    /\ DOMAIN USERS' = DOMAIN before
                    /\ \A v \in DOMAIN before \ {u} : USERS'[v] = before[v]
                    /\ file' = save_users(USERS')
              /\ ~applies => file' = file /\ USERS' = before /\ session' = session
      ]_vars

\* a verification has just unlocked the acting account
C4_Witness ==
    /\ last.op = "verify" /\ last.ret
    /\ file[session.user.username].premium_unlocked
    /\ file[session.user.username].balance = UNLOCK_BONUS * Scale
    /\ Cardinality(DOMAIN file) = 2

\* C5: once an account is unlocked, a further check_payment_and_unlock for it,
\* with a succeeded matching payment still listed, returns False, leaves the
\* account unlocked and changes neither its balance nor anything else.
C5_SecondVerifyChangesNothing ==
    [][( /\ last'.op = "verify"
         /\ ~last'.error
         /\ last'.paid
         /\ file[session.user.username].premium_unlocked )
       => /\ last'.ret = FALSE
          /\ file' = file
          /\ USERS' = load_users(file)
          /\ session' = session
          /\ file'[session.user.username].premium_unlocked
      ]_vars

\* the account was unlocked, has traded since, and a second verification with
\* the payment still listed has just returned False
C5_Witness ==
    /\ last.op = "verify" /\ ~last.ret /\ last.paid /\ ~last.error
    /\ file[session.user.username].premium_unlocked
    /\ session.user.trades # <<>>

\* C6: load_users after save_users gives back the population: the same
\* usernames, and every account with equal fields, history and trades.
C6_SaveLoadRoundTrip ==
    /\ load_users(save_users(USERS)) = USERS
    /\ file # NoFile => load_users(file) = USERS

\* a saved population of two accounts, one of them unlocked after trading
C6_Witness ==
    /\ file = save_users(USERS)
    /\ Cardinality(DOMAIN USERS) = 2
    /\ \E u \in DOMAIN USERS :
          /\ USERS[u].premium_unlocked
          /\ USERS[u].trades # <<>>
          /\ USERS[u].history # <<>>

\* C7: place_trade returns won = (prediction = outcome), the oracle's outcome,
\* and the delta it applied to the balance: exactly 0.9 x amount on a win and
\* exactly -amount on a loss.
C7_TradeReturn ==
    last.op = "trade" =>
        LET won == last.prediction = last.result
        IN  /\ last.ret[1] = won
            /\ last.ret[2] = last.result
            /\ won => 10 * last.ret[3] = 9 * last.amount
            /\ ~won => last.ret[3] = -last.amount
            /\ USERS[last.username].balance = last.before + last.ret[3]

\* a winning trade of more than the balance
C7_Witness ==
    /\ last.op = "trade"
    /\ last.ret[1]
    /\ last.amount > last.before
    /\ last.ret[3] > 0

ExpectedLevel(n) ==
    IF n <= 10 THEN "Beginner" ELSE IF n <= 30 THEN "Intermediate" ELSE "Pro"

Rank(level) ==
    CASE level = "Beginner" -> 0
      [] level = "Intermediate" -> 1
      [] level = "Pro" -> 2

\* C8: get_level is decided by the trade-log length alone (Beginner for 0..10,
\* Intermediate for 11..30, Pro from 31), and no operation on an account lowers
\* its level.
C8_LevelByTradeCount ==
    /\ [](get_level(session.user) = ExpectedLevel(Len(session.user.trades)))
    /\ [][Rank(get_level(session.user')) >= Rank(get_level(session.user))]_vars

\* the 31st trade has just made the account Pro
C8_Witness ==
    /\ last.op = "trade"
    /\ Len(session.user.trades) = 31
    /\ get_level(session.user) = "Pro"

WellFormed(resp) ==
    /\ resp.kind = "json"
    /\ Len(resp.series) >= 2
    /\ float(resp.series[1].close).ok
    /\ float(resp.series[2].close).ok

\* C9: get_real_market_trend never raises and returns "up" or "down" whatever
\* the market-data service does; on a well-formed response it returns "up"
\* exactly when the latest close exceeds the previous close.
C9_TrendAlwaysUpOrDown ==
    oracle.pc = "done" =>
        /\ oracle.out \in Directions
        /\ WellFormed(oracle.resp) =>
              oracle.out = IF float(oracle.resp.series[1].close).value
                              > float(oracle.resp.series[2].close).value
                           THEN "up" ELSE "down"

\* a response with a single price point was answered with the coin flip
C9_Witness ==
    /\ oracle.pc = "done"
    /\ oracle.resp.kind = "json"
    /\ Len(oracle.resp.series) = 1
    /\ oracle.out = oracle.coin

\* C10: every trade placed through the page has an amount within [1, balance at
\* that moment], so no trade is placed with the balance below 1 and no account,
\* in the session, the population or users.json, ever has a negative balance.
C10_AmountWithinBalance ==
    /\ last.op = "trade" =>
          /\ MIN_AMOUNT * Scale <= last.amount
          /\ last.amount <= last.before
          /\ last.before >= MIN_AMOUNT * Scale
    /\ session.user # None => session.user.balance >= 0
    /\ \A u \in DOMAIN USERS : USERS[u].balance >= 0
    /\ file # NoFile => \A u \in DOMAIN file : file[u].balance >= 0

\* an all-in trade was lost and left the session's account unable to trade
C10_Witness ==
    /\ last.op = "trade"
    /\ last.amount = last.before
    /\ ~last.ret[1]
    /\ session.user.balance = 0
    /\ ~CanTrade(session.user)

====
